---- MODULE Spec2Model ----
(***************************************************************************)
(* Model of the protein-design analysis scripts:                           *)
(*   job_scripts/calculate_bb_remodeled_region_rmsd.py  (RMSD pipeline)    *)
(*   local_protein_sequence_design/filter.py            (filter pipeline)  *)
(* Each operation of the two files is a group of actions over its own      *)
(* variables; every specification below runs one operation from inputs     *)
(* drawn from bounded sets and leaves the other operations idle.           *)
(***************************************************************************)
EXTENDS Integers, Sequences, FiniteSets, TLC

VARIABLES
    pc,                     \* position of the running operation
    error,                  \* exception that ended it, "none" while there is none
    \* ---- load_design
    design_dir,             \* the design directory handed to load_design
    pose_design,            \* returned designed structure
    pose_lowest_energy,     \* returned lowest-energy structure
    bb_remodeled_residues,  \* returned remodeled list (the manifest's list)
    bb_fixed_residues,      \* returned fixed list
    \* ---- calculate_bb_remodeled_region_rmsds / plot_bb_remodeled_region_rmsds
    entry,                  \* function the caller invoked
    argv_paths,             \* the design_paths argument of the caller
    plot_design_paths,      \* design_paths inside plot_... (after line 203)
    design_paths,           \* design_paths inside calculate_... (after line 148)
    loaded,                 \* load_design results, one per design path
    RMSDs,                  \* the matrix built so far, a list of rows
    tick_labels,            \* labels given to plt.xticks / plt.yticks
    \* ---- one (i, j) iteration of calculate_bb_remodeled_region_rmsds
    design_i,               \* pose_designs[i] with its remodeled / fixed lists
    lowest_j,               \* pose_lowest_energies[j] with design j's lists
    pose_source,            \* shorter structure (lines 172-179)
    pose_target,            \* longer structure
    remodeled_residues_target,\* remodeled list of the target's design
    s_t_distances_sorted,   \* (i, j, distance) triples in sorted order
    d_pos,                  \* triples of s_t_distances_sorted consumed by the loop
    res_map,                \* dict target -> source, as (key, value) pairs in insertion order
    remodeled_aligned_residues_source,
    remodeled_aligned_residues_target,
    rmsd,                   \* value appended to RMSDs[i]
    \* ---- calc_backbone_RMSD
    pose1,                  \* first structure
    residues1,              \* its residue list
    pose2,                  \* second structure
    residues2,              \* its residue list
    rmsd_12,                \* calc_backbone_RMSD(pose1, residues1, pose2, residues2)
    rmsd_21,                \* calc_backbone_RMSD(pose2, residues2, pose1, residues1)
    rmsd_11,                \* calc_backbone_RMSD(pose1, residues1, pose1, residues1)
    \* ---- get_superimpose_transformation / superimpose_poses_by_residues
    sup_entry,              \* function the caller invoked
    src_pose,               \* pose_source of superimpose_poses_by_residues
    src_pose_before,        \* pose_source as it was handed in
    src_residues,           \* residues_source
    tgt_pose,               \* pose_target
    tgt_residues,           \* residues_target
    P1,                     \* points to be moved
    P2,                     \* points to be moved onto
    given_R,                \* rotation that made P2 from P1
    given_t,                \* translation that made P2 from P1
    M_t,                    \* the returned (M, t), <<>> before the return
    \* ---- get_fragment_quality_scores
    cwd_files,              \* names of the files in the current working directory
    fdf,                    \* what pick_fragments returned, <<>> before it returns
    crmsds,                 \* per-position crmsd list
    fragment_scores,        \* the returned (max, mean), <<>> before the return
    \* ---- generate_filter_scores
    filter_pose_size,       \* pose.size()
    designable_residues,
    repackable_residues,
    bur_unsat_polars,       \* per-residue counts of the calculator, entry k for residue k
    consensus_buhs,         \* backrub_ensemble_consensus_buhs_for_each_res
    scored_over,            \* key -> residues whose data went into filter_scores[key]
    filter_scores,          \* key -> value, for the sums the code forms itself
    \* ---- get_backrub_ensemble_consensus_buhs_for_each_res
    br_pose,                \* the pose argument
    original_buhs,          \* per-residue counts of pose at the call
    num_segments,           \* br_mover.num_segments() after the first apply
    segment_i,              \* loop variable i
    next_segment_id,        \* segment the mover perturbs next
    copy_j,                 \* loop variable j
    tmp_pose,               \* the clone being perturbed
    buhs_for_each_res,      \* the running per-residue minimum
    scored_buhs,            \* count lists of the perturbed copies scored so far
    scored_per_segment      \* number of copies scored for each segment

loadVars == <<design_dir, pose_design, pose_lowest_energy,
              bb_remodeled_residues, bb_fixed_residues>>
batchVars == <<entry, argv_paths, plot_design_paths, design_paths, loaded,
               RMSDs, tick_labels>>
pairVars == <<design_i, lowest_j, pose_source, pose_target,
              remodeled_residues_target, s_t_distances_sorted, d_pos,
              res_map, remodeled_aligned_residues_source,
              remodeled_aligned_residues_target, rmsd>>
rmsdVars == <<pose1, residues1, pose2, residues2, rmsd_12, rmsd_21, rmsd_11>>
supVars == <<sup_entry, src_pose, src_pose_before, src_residues, tgt_pose,
             tgt_residues, P1, P2, given_R, given_t, M_t>>
fragmentVars == <<cwd_files, fdf, crmsds, fragment_scores>>
filterVars == <<filter_pose_size, designable_residues, repackable_residues,
                bur_unsat_polars, consensus_buhs, scored_over, filter_scores>>
backrubVars == <<br_pose, original_buhs, num_segments, segment_i,
                 next_segment_id, copy_j, tmp_pose, buhs_for_each_res,
                 scored_buhs, scored_per_segment>>
vars == <<pc, error, loadVars, batchVars, pairVars, rmsdVars, supVars,
          fragmentVars, filterVars, backrubVars>>

\* The variables of every operation but the named one
notLoad == <<batchVars, pairVars, rmsdVars, supVars, fragmentVars,
             filterVars, backrubVars>>
notBatch == <<loadVars, pairVars, rmsdVars, supVars, fragmentVars,
              filterVars, backrubVars>>
notPair == <<loadVars, batchVars, rmsdVars, supVars, fragmentVars,
             filterVars, backrubVars>>
notRmsd == <<loadVars, batchVars, pairVars, supVars, fragmentVars,
             filterVars, backrubVars>>
notSup == <<loadVars, batchVars, pairVars, rmsdVars, fragmentVars,
            filterVars, backrubVars>>
notFragment == <<loadVars, batchVars, pairVars, rmsdVars, supVars,
                 filterVars, backrubVars>>
notFilter == <<loadVars, batchVars, pairVars, rmsdVars, supVars,
               fragmentVars, backrubVars>>
notBackrub == <<loadVars, batchVars, pairVars, rmsdVars, supVars,
                fragmentVars, filterVars>>

(***************************************************************************)
(* Helpers on sequences (python lists).                                    *)
(***************************************************************************)
ToSet(s) == {s[i] : i \in DOMAIN s}

RangeList(a, b) == [k \in 1..(IF b >= a THEN b - a + 1 ELSE 0) |-> a + k - 1]

SeqsUpTo(S, n) == UNION {[1..k -> S] : k \in 0..n}

NoPose == [size |-> 0, from |-> "none"]

(***************************************************************************)
(* load_design                                                             *)
(***************************************************************************)
MaxPoseSize == 3
MaxManifest == 3

\* A design directory: which files exist, the residue counts of the two
\* structure files and the manifest's bb_remodeled_residues list.
DesignDirs ==
    [pdb : BOOLEAN, json : BOOLEAN, lowest : BOOLEAN,
     size : 1..MaxPoseSize, lowest_size : 1..MaxPoseSize,
     manifest : SeqsUpTo(0..(MaxPoseSize + 1), MaxManifest)]

\* range(1, size) in place of range(1, size + 1)
FixedResidues_OffByOne(size, remodeled) ==
    SelectSeq(RangeList(1, size - 1), LAMBDA i : i \notin ToSet(remodeled))

\* bb_fixed_residues = [i for i in range(1, size + 1) if not (i in remodeled)]
FixedResidues(size, remodeled) ==
    SelectSeq(RangeList(1, size), LAMBDA i : i \notin ToSet(remodeled))

\* The whole of load_design: what it returns, or the exception it raises.
LoadResult(d) ==
    IF ~d.pdb THEN [error |-> "pose_from_file"]
    ELSE IF ~d.json THEN [error |-> "FileNotFoundError"]
    ELSE [error |-> "none",
          pose_design |-> [size |-> d.size, from |-> "design.pdb.gz"],
          pose_lowest_energy |->
              IF d.lowest
              THEN [size |-> d.lowest_size, from |-> "lowest_energy_model.pdb"]
              ELSE [size |-> d.size, from |-> "clone"],
          bb_remodeled_residues |-> d.manifest,
          bb_fixed_residues |-> FixedResidues(d.size, d.manifest)]

IdleBatch ==
    /\ entry = "none"
    /\ argv_paths = <<>>
    /\ plot_design_paths = <<>>
    /\ design_paths = <<>>
    /\ loaded = <<>>
    /\ RMSDs = <<>>
    /\ tick_labels = <<>>

IdleLoad ==
    /\ design_dir = [pdb |-> FALSE, json |-> FALSE, lowest |-> FALSE,
                     size |-> 1, lowest_size |-> 1, manifest |-> <<>>]
    /\ pose_design = NoPose
    /\ pose_lowest_energy = NoPose
    /\ bb_remodeled_residues = <<>>
    /\ bb_fixed_residues = <<>>

InitLoad ==
    /\ pc = "load_design"
    /\ error = "none"
    /\ design_dir \in {d \in DesignDirs : d.lowest \/ d.lowest_size = d.size}
    /\ pose_design = NoPose
    /\ pose_lowest_energy = NoPose
    /\ bb_remodeled_residues = <<>>
    /\ bb_fixed_residues = <<>>

LoadDesign ==
    /\ pc = "load_design"
    /\ LET r == LoadResult(design_dir) IN
         /\ r.error = "none"
         /\ pose_design' = r.pose_design
         /\ pose_lowest_energy' = r.pose_lowest_energy
         /\ bb_remodeled_residues' = r.bb_remodeled_residues
         /\ bb_fixed_residues' = r.bb_fixed_residues
    /\ pc' = "loaded"
    /\ UNCHANGED <<error, design_dir, notLoad>>

LoadDesignFails ==
    /\ pc = "load_design"
    /\ LoadResult(design_dir).error # "none"
    /\ error' = LoadResult(design_dir).error
    /\ pc' = "raised"
    /\ UNCHANGED <<loadVars, notLoad>>

NextLoad == LoadDesign \/ LoadDesignFails


\* C2 (as stated): the remodeled set and the fixed set returned by load_design
\* are disjoint and their union is exactly 1..L.
C2_PartitionAsClaimed ==
    pc = "loaded" =>
        /\ ToSet(bb_remodeled_residues) \cap ToSet(bb_fixed_residues) = {}
        /\ ToSet(bb_remodeled_residues) \cup ToSet(bb_fixed_residues)
               = 1..pose_design.size

\* C2 (amended): the two lists are disjoint, the fixed list is exactly the
\* positions of 1..L the manifest does not list, so the union covers 1..L; the
\* union is exactly 1..L precisely when the manifest lists no index outside 1..L.
C2_FixedIsComplement ==
    pc = "loaded" =>
        LET R == ToSet(bb_remodeled_residues)
            F == ToSet(bb_fixed_residues)
            L == pose_design.size
        IN  /\ R \cap F = {}
            /\ F = (1..L) \ R
            /\ (1..L) \subseteq (R \cup F)
            /\ (R \cup F = 1..L) <=> (R \subseteq 1..L)

C2_Witness ==
    /\ pc = "loaded"
    /\ bb_remodeled_residues # <<>>
    /\ bb_fixed_residues # <<>>
    /\ ToSet(bb_remodeled_residues) \subseteq 1..pose_design.size
(***************************************************************************)
(* calculate_bb_remodeled_region_rmsds and plot_bb_remodeled_region_rmsds: *)
(* the filtering of the design paths, the loading loop, the shape of the   *)
(* matrix and the heatmap's axis labels.  The value of one matrix entry is *)
(* the pair computation modelled further down (SpecPair); the directories  *)
(* of this specification all hold the same two-residue structure, so every *)
(* pair computation succeeds.                                              *)
(***************************************************************************)
MaxPaths == 3

BatchDirs ==
    {d \in DesignDirs : /\ d.size = 2 /\ d.lowest_size = 2
                        /\ ~d.lowest /\ d.manifest = <<1>>}

\* [d for d in design_paths if os.path.exists(os.path.join(d, 'design_info.json'))]
HasDesignInfo(paths) == SelectSeq(paths, LAMBDA d : d.json)

\* [d for d in design_paths if os.path.exists(os.path.join(d, 'design.pdb.gz'))]
HasDesignPdb(paths) == SelectSeq(paths, LAMBDA d : d.pdb)

InitBatch ==
    /\ entry \in {"calculate_bb_remodeled_region_rmsds",
                  "plot_bb_remodeled_region_rmsds"}
    /\ pc = entry
    /\ error = "none"
    /\ argv_paths \in SeqsUpTo(BatchDirs, MaxPaths)
    /\ plot_design_paths = <<>>
    /\ design_paths = <<>>
    /\ loaded = <<>>
    /\ RMSDs = <<>>
    /\ tick_labels = <<>>

\* plot_bb_remodeled_region_rmsds, lines 203-205: filter, then call calculate_...
PlotFilterPaths ==
    /\ pc = "plot_bb_remodeled_region_rmsds"
    /\ plot_design_paths' = HasDesignInfo(argv_paths)
    /\ pc' = "calculate_bb_remodeled_region_rmsds"
    /\ UNCHANGED <<error, notBatch, entry, argv_paths, design_paths, loaded,
                   RMSDs, tick_labels>>

\* calculate_bb_remodeled_region_rmsds, line 148: filter its argument
CalculateFilterPaths ==
    /\ pc = "calculate_bb_remodeled_region_rmsds"
    /\ design_paths' =
         HasDesignPdb(IF entry = "plot_bb_remodeled_region_rmsds"
                      THEN plot_design_paths ELSE argv_paths)
    /\ pc' = "load"
    /\ UNCHANGED <<error, notBatch, entry, argv_paths, plot_design_paths,
                   loaded, RMSDs, tick_labels>>

\* lines 157-158: one iteration of the loading loop
LoadNextDesign ==
    /\ pc = "load"
    /\ Len(loaded) < Len(design_paths)
    /\ LET r == LoadResult(design_paths[Len(loaded) + 1]) IN
         IF r.error = "none"
         THEN /\ loaded' = Append(loaded, r)
              /\ UNCHANGED <<pc, error>>
         ELSE /\ error' = r.error
              /\ pc' = "raised"
              /\ UNCHANGED loaded
    /\ UNCHANGED <<notBatch, entry, argv_paths, plot_design_paths,
                   design_paths, RMSDs, tick_labels>>

\* lines 164-195: one iteration of the outer loop appends one row holding one
\* RMSD per design path
AppendRow ==
    /\ pc = "load"
    /\ Len(loaded) = Len(design_paths)
    /\ Len(RMSDs) < Len(design_paths)
    /\ RMSDs' = Append(RMSDs, [j \in 1..Len(design_paths) |-> 0])
    /\ UNCHANGED <<pc, error, notBatch, entry, argv_paths, plot_design_paths,
                   design_paths, loaded, tick_labels>>

\* line 197: return RMSDs (to the caller, or to plot_... at line 205)
ReturnRMSDs ==
    /\ pc = "load"
    /\ Len(loaded) = Len(design_paths)
    /\ Len(RMSDs) = Len(design_paths)
    /\ pc' = IF entry = "plot_bb_remodeled_region_rmsds" THEN "plot" ELSE "returned"
    /\ UNCHANGED <<error, batchVars, notBatch>>

\* lines 209-232: draw the matrix, label both axes with plot's design_paths
PlotHeatmap ==
    /\ pc = "plot"
    /\ tick_labels' = plot_design_paths
    /\ pc' = "saved"
    /\ UNCHANGED <<error, notBatch, entry, argv_paths, plot_design_paths,
                   design_paths, loaded, RMSDs>>

NextBatch ==
    \/ PlotFilterPaths \/ CalculateFilterPaths \/ LoadNextDesign
    \/ AppendRow \/ ReturnRMSDs \/ PlotHeatmap


\* Number of given directories that hold both design.pdb.gz and design_info.json
NumComplete(paths) == Len(SelectSeq(paths, LAMBDA d : d.pdb /\ d.json))

IsSquare(m, n) == Len(m) = n /\ \A i \in DOMAIN m : Len(m[i]) = n

\* C3: a directory lacking design.pdb.gz or design_info.json is excluded
\* before loading, no error is raised because of it, and the matrix is N x N
\* with N the number of directories holding both files, which is also the
\* number of axis labels of the heatmap.
C3_IncompleteDirsExcluded ==
    /\ error = "none"
    /\ pc \in {"load", "plot", "returned", "saved"} =>
           Len(design_paths) = NumComplete(argv_paths)
    /\ pc \in {"plot", "returned", "saved"} =>
           IsSquare(RMSDs, NumComplete(argv_paths))
    /\ pc = "saved" => Len(tick_labels) = Len(RMSDs)
(***************************************************************************)
(* Structures.  A pose is the list of its residues, a residue the          *)
(* coordinates of its backbone atoms, a point a triple of integers.  The   *)
(* comparisons the code makes on distances are made here on squared        *)
(* distances, which order the same way.                                    *)
(***************************************************************************)
Atoms == <<"N", "CA", "C">>

DistSq(p, q) ==
    (p[1] - q[1]) * (p[1] - q[1]) + (p[2] - q[2]) * (p[2] - q[2])
        + (p[3] - q[3]) * (p[3] - q[3])

\* for res in residues: for atom in ['N', 'CA', 'C']: points.append(...)
GetBackbonePoints(pose, residues) ==
    [k \in 1..(3 * Len(residues)) |->
        pose[residues[((k - 1) \div 3) + 1]][Atoms[((k - 1) % 3) + 1]]]

RECURSIVE SumSqDiff(_, _, _)
SumSqDiff(points1, poinsts2, i) ==
    IF i = 0 THEN 0
    ELSE SumSqDiff(points1, poinsts2, i - 1) + DistSq(points1[i], poinsts2[i])

\* diff against the first point of the second list only
RMSD_FirstPointOnly(points1, poinsts2) ==
    [sq_sum |-> SumSqDiff(points1, [i \in DOMAIN points1 |-> poinsts2[1]],
                          Len(points1)),
     n |-> Len(points1)]

\* The nested RMSD of calc_backbone_RMSD: sqrt(sum(d.d for d in diff) / len(diff)),
\* kept as the sum and the count it is the square root of the quotient of.
RMSD(points1, poinsts2) ==
    [sq_sum |-> SumSqDiff(points1, poinsts2, Len(points1)), n |-> Len(points1)]

(***************************************************************************)
(* get_target_to_source_residue_map                                        *)
(***************************************************************************)
\* The two loops of lines 122-123 swapped: target outside, source inside
PairwiseDistances_TargetMajor(source, target) ==
    [k \in 1..(Len(source) * Len(target)) |->
        LET j == ((k - 1) \div Len(source)) + 1
            i == ((k - 1) % Len(source)) + 1
        IN  <<i, j, DistSq(source[i].CA, target[j].CA)>>]

\* lines 122-124: every (i, j, distance) in enumeration order
PairwiseDistances(source, target) ==
    [k \in 1..(Len(source) * Len(target)) |->
        LET i == ((k - 1) \div Len(target)) + 1
            j == ((k - 1) % Len(target)) + 1
        IN  <<i, j, DistSq(source[i].CA, target[j].CA)>>]

\* x goes behind every element whose key is not larger: equal keys keep the
\* order they came in
RECURSIVE InsertStable(_, _)
InsertStable(x, sorted) ==
    IF sorted = <<>> THEN <<x>>
    ELSE IF sorted[Len(sorted)][3] <= x[3] THEN Append(sorted, x)
    ELSE Append(InsertStable(x, SubSeq(sorted, 1, Len(sorted) - 1)),
                sorted[Len(sorted)])

\* x goes in front of the elements of equal key
RECURSIVE InsertBeforeEqual(_, _)
InsertBeforeEqual(x, sorted) ==
    IF sorted = <<>> THEN <<x>>
    ELSE IF sorted[Len(sorted)][3] < x[3] THEN Append(sorted, x)
    ELSE Append(InsertBeforeEqual(x, SubSeq(sorted, 1, Len(sorted) - 1)),
                sorted[Len(sorted)])

RECURSIVE SortedReversingTies(_, _)
SortedReversingTies(s, k) ==
    IF k = 0 THEN <<>> ELSE InsertBeforeEqual(s[k], SortedReversingTies(s, k - 1))

RECURSIVE SortedPrefix(_, _)
SortedPrefix(s, k) ==
    IF k = 0 THEN <<>> ELSE InsertStable(s[k], SortedPrefix(s, k - 1))

Sorted_TiesReversed(s) == SortedReversingTies(s, Len(s))

\* sorted(s_t_distances, key=lambda x : x[2]); python's sort is stable
Sorted(s) == SortedPrefix(s, Len(s))

Keys(map) == {map[k][1] : k \in DOMAIN map}
Values(map) == {map[k][2] : k \in DOMAIN map}

Accepts_TargetOnly(map, d) == d[2] \notin Keys(map)

\* line 133: the target is no key yet and the source no value yet
Accepts(map, d) == d[2] \notin Keys(map) /\ d[1] \notin Values(map)

\* lines 132-137: the loop over the sorted triples from position pos on; gives
\* the map and the number of triples consumed when the loop ends
RECURSIVE MatchLoop(_, _, _, _)
MatchLoop(sorted, pos, map, source_size) ==
    IF pos > Len(sorted) THEN [res_map |-> map, consumed |-> Len(sorted)]
    ELSE LET d == sorted[pos]
             m2 == IF Accepts(map, d) THEN Append(map, <<d[2], d[1]>>) ELSE map
         IN  IF Len(m2) = source_size
             THEN [res_map |-> m2, consumed |-> pos]
             ELSE MatchLoop(sorted, pos + 1, m2, source_size)

GetTargetToSourceResidueMap(source, target) ==
    LET sorted == Sorted(PairwiseDistances(source, target))
        r == MatchLoop(sorted, 1, <<>>, Len(source))
    IN  [sorted |-> sorted, res_map |-> r.res_map, consumed |-> r.consumed]

(***************************************************************************)
(* One (i, j) iteration of calculate_bb_remodeled_region_rmsds, lines      *)
(* 166-195.  The structures lie along one axis of the grid.  The rigid     *)
(* motion that superimpose_poses_by_residues applies (computed by SVD, see *)
(* the superposition engine below) is any shift that keeps the structure   *)
(* on the grid.                                                            *)
(***************************************************************************)
MaxLen == 3

CAPositions == {0, 1, 2}

ResidueAt(x) == [N |-> <<x, 1, 0>>, CA |-> <<x, 0, 0>>, C |-> <<x, 0, 1>>]

PosesOfSize(n) == {[k \in 1..n |-> ResidueAt(xs[k])] : xs \in [1..n -> CAPositions]}

Shift(pose, d) ==
    [k \in DOMAIN pose |->
        [a \in DOMAIN pose[k] |->
            <<pose[k][a][1] + d, pose[k][a][2], pose[k][a][3]>>]]

OnGrid(pose) == \A k \in DOMAIN pose : pose[k].CA[1] \in CAPositions

\* bb_remodeled_residues lists of a manifest: the structure's last positions
\* from some position on (none, some or all of them)
Manifests(n) == {RangeList(a, n) : a \in 1..(n + 1)}

\* What load_design returned for a design of n residues
Designs(n) ==
    {[pose |-> p, bb_remodeled_residues |-> r,
      bb_fixed_residues |-> FixedResidues(n, r)] :
        p \in PosesOfSize(n), r \in Manifests(n)}

\* What stops superimpose_poses_by_residues before it moves pose_source: the
\* assert of line 82, or numpy's svd given the empty covariance of no points
SuperimposeError(residues_source, residues_target) ==
    IF Len(residues_source) # Len(residues_target) THEN "AssertionError"
    ELSE IF Len(residues_source) = 0 THEN "LinAlgError"
    ELSE "none"

IdlePair ==
    /\ design_i = <<>>
    /\ lowest_j = <<>>
    /\ pose_source = <<>>
    /\ pose_target = <<>>
    /\ remodeled_residues_target = <<>>
    /\ s_t_distances_sorted = <<>>
    /\ d_pos = 0
    /\ res_map = <<>>
    /\ remodeled_aligned_residues_source = <<>>
    /\ remodeled_aligned_residues_target = <<>>
    /\ rmsd = <<>>

InitPair ==
    /\ pc = "superimpose"
    /\ error = "none"
    /\ design_i \in UNION {Designs(n) : n \in 1..MaxLen}
    /\ lowest_j \in {d \in UNION {Designs(n) : n \in 1..MaxLen} :
                        \E k \in DOMAIN d.pose : d.pose[k].CA[1] = 0}
    /\ pose_source = <<>>
    /\ pose_target = <<>>
    /\ remodeled_residues_target = <<>>
    /\ s_t_distances_sorted = <<>>
    /\ d_pos = 0
    /\ res_map = <<>>
    /\ remodeled_aligned_residues_source = <<>>
    /\ remodeled_aligned_residues_target = <<>>
    /\ rmsd = <<>>

\* line 170: superimpose prediction j onto design i by the fixed residues
SuperimposeJOntoI ==
    /\ pc = "superimpose"
    /\ SuperimposeError(lowest_j.bb_fixed_residues, design_i.bb_fixed_residues) = "none"
    /\ \E d \in CAPositions :
         /\ OnGrid(Shift(lowest_j.pose, d))
         /\ lowest_j' = [lowest_j EXCEPT !.pose = Shift(lowest_j.pose, d)]
    /\ pc' = "select"
    /\ UNCHANGED <<error, notPair, design_i, pose_source, pose_target,
                   remodeled_residues_target, s_t_distances_sorted, d_pos,
                   res_map, remodeled_aligned_residues_source,
                   remodeled_aligned_residues_target, rmsd>>

SuperimposeJOntoIFails ==
    /\ pc = "superimpose"
    /\ SuperimposeError(lowest_j.bb_fixed_residues, design_i.bb_fixed_residues) # "none"
    /\ error' = SuperimposeError(lowest_j.bb_fixed_residues, design_i.bb_fixed_residues)
    /\ pc' = "raised"
    /\ UNCHANGED <<notPair, pairVars>>

\* lines 172-179: the shorter structure is the source
SelectSourceAndTarget ==
    /\ pc = "select"
    /\ IF Len(design_i.pose) > Len(lowest_j.pose)
       THEN /\ pose_source' = lowest_j.pose
            /\ pose_target' = design_i.pose
            /\ remodeled_residues_target' = design_i.bb_remodeled_residues
       ELSE /\ pose_target' = lowest_j.pose
            /\ pose_source' = design_i.pose
            /\ remodeled_residues_target' = lowest_j.bb_remodeled_residues
    /\ pc' = "map"
    /\ UNCHANGED <<error, notPair, design_i, lowest_j, s_t_distances_sorted,
                   d_pos, res_map, remodeled_aligned_residues_source,
                   remodeled_aligned_residues_target, rmsd>>

\* line 181: res_map = get_target_to_source_residue_map(pose_source, pose_target)
GetResidueMap ==
    /\ pc = "map"
    /\ LET r == GetTargetToSourceResidueMap(pose_source, pose_target) IN
         /\ s_t_distances_sorted' = r.sorted
         /\ d_pos' = r.consumed
         /\ res_map' = r.res_map
    /\ pc' = "collect"
    /\ UNCHANGED <<error, notPair, design_i, lowest_j, pose_source, pose_target,
                   remodeled_residues_target,
                   remodeled_aligned_residues_source,
                   remodeled_aligned_residues_target, rmsd>>

\* lines 185-191: the map's entries whose key is a remodeled residue of the target
CollectAligned ==
    /\ pc = "collect"
    /\ LET kept == SelectSeq(res_map,
                     LAMBDA e : e[1] \in ToSet(remodeled_residues_target)) IN
         /\ remodeled_aligned_residues_target' = [k \in DOMAIN kept |-> kept[k][1]]
         /\ remodeled_aligned_residues_source' = [k \in DOMAIN kept |-> kept[k][2]]
    /\ pc' = "rmsd"
    /\ UNCHANGED <<error, notPair, design_i, lowest_j, pose_source, pose_target,
                   remodeled_residues_target, s_t_distances_sorted, d_pos,
                   res_map, rmsd>>

\* lines 193-195: calc_backbone_RMSD over the two aligned lists
CalcBackboneRMSD ==
    /\ pc = "rmsd"
    /\ remodeled_aligned_residues_source # <<>>
    /\ rmsd' = RMSD(GetBackbonePoints(pose_source, remodeled_aligned_residues_source),
                    GetBackbonePoints(pose_target, remodeled_aligned_residues_target))
    /\ pc' = "appended"
    /\ UNCHANGED <<error, notPair, design_i, lowest_j, pose_source, pose_target,
                   remodeled_residues_target, s_t_distances_sorted, d_pos,
                   res_map, remodeled_aligned_residues_source,
                   remodeled_aligned_residues_target>>

\* line 105 with no aligned residue: 0 / 0
CalcBackboneRMSDFails ==
    /\ pc = "rmsd"
    /\ remodeled_aligned_residues_source = <<>>
    /\ error' = "ZeroDivisionError"
    /\ pc' = "raised"
    /\ UNCHANGED <<notPair, pairVars>>

NextPair ==
    \/ SuperimposeJOntoI \/ SuperimposeJOntoIFails \/ SelectSourceAndTarget
    \/ GetResidueMap \/ CollectAligned \/ CalcBackboneRMSD
    \/ CalcBackboneRMSDFails

\* C1: with source.size() <= target.size() the map has exactly source.size()
\* entries, no target residue is a key twice, no source residue is a value
\* twice, and every source residue is matched.
C1_MapIsInjectiveAndTotal ==
    (pc \in {"collect", "rmsd", "appended"}
        /\ Len(pose_source) <= Len(pose_target)) =>
        /\ Len(res_map) = Len(pose_source)
        /\ Cardinality(Keys(res_map)) = Len(res_map)
        /\ Cardinality(Values(res_map)) = Len(res_map)
        /\ Values(res_map) = 1..Len(pose_source)
        /\ Keys(res_map) \subseteq 1..Len(pose_target)

C1_Witness ==
    /\ pc = "collect"
    /\ Len(pose_source) = 2
    /\ Len(pose_target) = 3
    /\ d_pos > 2
    /\ \E k \in DOMAIN res_map : res_map[k][1] # res_map[k][2]
\* The source is shorter than the target, the target's leading residues lie
\* exactly on the source's residues, and the source's residues lie on
\* pairwise distinct positions
TargetExtendsSource ==
    /\ Len(pose_source) < Len(pose_target)
    /\ \A k \in DOMAIN pose_source : pose_target[k] = pose_source[k]
    /\ \A k, l \in DOMAIN pose_source :
           k # l => pose_source[k].CA # pose_source[l].CA

\* C5: when the longer structure B holds an exact copy of the shorter
\* structure A in its residues 1..n, every B residue k in 1..n is mapped to A
\* residue k, B's residues n+1..m are unmapped, and the lists handed to
\* calc_backbone_RMSD hold exactly B's remodeled residues within 1..n, each
\* paired with the A residue of the same index.
C5_CopyIsMappedToItself ==
    (pc \in {"rmsd", "appended"} /\ TargetExtendsSource) =>
        LET n == Len(pose_source) IN
        /\ Keys(res_map) = 1..n
        /\ \A k \in DOMAIN res_map : res_map[k][1] = res_map[k][2]
        /\ ToSet(remodeled_aligned_residues_target)
               = ToSet(remodeled_residues_target) \cap (1..n)
        /\ remodeled_aligned_residues_source = remodeled_aligned_residues_target
        /\ pc = "appended" => rmsd.sq_sum = 0

C5_Witness ==
    /\ pc = "appended"
    /\ TargetExtendsSource
    /\ Len(pose_source) = 2
    /\ pose_target[3].CA = pose_source[1].CA
    /\ 3 \in ToSet(remodeled_residues_target)
    /\ Len(remodeled_aligned_residues_target) = 1

(***************************************************************************)
(* calc_backbone_RMSD, called on two structures in both argument orders    *)
(* and on one structure against itself.                                    *)
(***************************************************************************)
MaxResidueList == 2

RmsdResidues ==
    {ResidueAt(0), ResidueAt(1),
     [N |-> <<0, 2, 0>>, CA |-> <<1, 1, 0>>, C |-> <<1, 0, 2>>]}

RmsdPoses == [1..2 -> RmsdResidues]

\* What calc_backbone_RMSD raises: the assert of line 100, or 0 / 0 at line
\* 105 when both lists are empty
CalcBackboneRMSDError(r1, r2) ==
    IF Len(r1) # Len(r2) THEN "AssertionError"
    ELSE IF Len(r1) = 0 THEN "ZeroDivisionError"
    ELSE "none"

\* lines 107-110
CalcBackboneRMSDValue(p1, r1, p2, r2) ==
    RMSD(GetBackbonePoints(p1, r1), GetBackbonePoints(p2, r2))

IdleRmsd ==
    /\ pose1 = <<>>
    /\ residues1 = <<>>
    /\ pose2 = <<>>
    /\ residues2 = <<>>
    /\ rmsd_12 = <<>>
    /\ rmsd_21 = <<>>
    /\ rmsd_11 = <<>>

InitRmsd ==
    /\ pc = "rmsd_12"
    /\ error = "none"
    /\ pose1 \in RmsdPoses
    /\ pose2 \in RmsdPoses
    /\ residues1 \in SeqsUpTo(1..2, MaxResidueList)
    /\ residues2 \in SeqsUpTo(1..2, MaxResidueList)
    /\ rmsd_12 = <<>>
    /\ rmsd_21 = <<>>
    /\ rmsd_11 = <<>>

RmsdOneTwo ==
    /\ pc = "rmsd_12"
    /\ CalcBackboneRMSDError(residues1, residues2) = "none"
    /\ rmsd_12' = CalcBackboneRMSDValue(pose1, residues1, pose2, residues2)
    /\ pc' = "rmsd_21"
    /\ UNCHANGED <<error, notRmsd, pose1, residues1, pose2, residues2,
                   rmsd_21, rmsd_11>>

RmsdTwoOne ==
    /\ pc = "rmsd_21"
    /\ CalcBackboneRMSDError(residues2, residues1) = "none"
    /\ rmsd_21' = CalcBackboneRMSDValue(pose2, residues2, pose1, residues1)
    /\ pc' = "rmsd_11"
    /\ UNCHANGED <<error, notRmsd, pose1, residues1, pose2, residues2,
                   rmsd_12, rmsd_11>>

RmsdOneOne ==
    /\ pc = "rmsd_11"
    /\ CalcBackboneRMSDError(residues1, residues1) = "none"
    /\ rmsd_11' = CalcBackboneRMSDValue(pose1, residues1, pose1, residues1)
    /\ pc' = "rmsd_done"
    /\ UNCHANGED <<error, notRmsd, pose1, residues1, pose2, residues2,
                   rmsd_12, rmsd_21>>

RmsdRaises ==
    /\ pc = "rmsd_12"
    /\ CalcBackboneRMSDError(residues1, residues2) # "none"
    /\ error' = CalcBackboneRMSDError(residues1, residues2)
    /\ pc' = "raised"
    /\ UNCHANGED <<notRmsd, rmsdVars>>

NextRmsd == RmsdOneTwo \/ RmsdTwoOne \/ RmsdOneOne \/ RmsdRaises

\* C6: for two equal-length, non-empty backbone point lists the RMSD of a list
\* against itself is 0 and the RMSD is the same in both argument orders.
C6_RmsdZeroOnSelfAndSymmetric ==
    pc = "rmsd_done" =>
        /\ rmsd_11.sq_sum = 0
        /\ rmsd_12 = rmsd_21

C6_Witness ==
    /\ pc = "rmsd_done"
    /\ rmsd_12.sq_sum > 0
    /\ rmsd_12.n = 6
    /\ residues1 # residues2
    /\ pose1 # pose2

(***************************************************************************)
(* Superposition engine: get_superimpose_transformation and                *)
(* superimpose_poses_by_residues.                                          *)
(*                                                                         *)
(* Coordinates are integers.  A mean of n points is kept as their sum, so  *)
(* that centred points, the covariance matrix and the translation carry    *)
(* the factors n, n*n and n.  numpy's svd is modelled by what it           *)
(* guarantees: R = V diag(S) W with V and W orthogonal and S non-negative  *)
(* in descending order; whenever several factorisations exist the one      *)
(* returned is any of them.  The orthogonal matrices of the model are the  *)
(* 48 signed permutation matrices, and the inputs are the point lists      *)
(* whose covariance has such a factorisation (principal axes along the     *)
(* coordinate axes), moved by one of the 24 rotations among them.          *)
(***************************************************************************)
Zero3 == <<0, 0, 0>>

VecAdd(u, v) == [a \in 1..3 |-> u[a] + v[a]]
VecSub(u, v) == [a \in 1..3 |-> u[a] - v[a]]
Scale(c, v) == [a \in 1..3 |-> c * v[a]]

MatVec(m, v) ==
    [a \in 1..3 |-> m[a][1] * v[1] + m[a][2] * v[2] + m[a][3] * v[3]]

MatMul(m, n) ==
    [a \in 1..3 |-> [b \in 1..3 |->
        m[a][1] * n[1][b] + m[a][2] * n[2][b] + m[a][3] * n[3][b]]]

Transpose(m) == [a \in 1..3 |-> [b \in 1..3 |-> m[b][a]]]

Det(m) ==
    m[1][1] * (m[2][2] * m[3][3] - m[2][3] * m[3][2])
    - m[1][2] * (m[2][1] * m[3][3] - m[2][3] * m[3][1])
    + m[1][3] * (m[2][1] * m[3][2] - m[2][2] * m[3][1])

Abs(x) == IF x < 0 THEN -x ELSE x

Permutations3 ==
    {<<1, 2, 3>>, <<1, 3, 2>>, <<2, 1, 3>>, <<2, 3, 1>>, <<3, 1, 2>>, <<3, 2, 1>>}

Orthogonal ==
    {[a \in 1..3 |-> [b \in 1..3 |-> IF b = p[a] THEN sg[a] ELSE 0]] :
        p \in Permutations3, sg \in [1..3 -> {-1, 1}]}

Rotations == {m \in Orthogonal : Det(m) = 1}

RECURSIVE SumPoints(_, _)
SumPoints(P, k) == IF k = 0 THEN Zero3 ELSE VecAdd(SumPoints(P, k - 1), P[k])

\* np.array(P) - np.mean(P, axis=0), times len(P)
Centred(P) ==
    LET s == SumPoints(P, Len(P)) IN
    [k \in DOMAIN P |-> VecSub(Scale(Len(P), P[k]), s)]

RECURSIVE SumProducts(_, _, _, _, _)
SumProducts(X, Y, a, b, k) ==
    IF k = 0 THEN 0 ELSE SumProducts(X, Y, a, b, k - 1) + X[k][a] * Y[k][b]

\* line 58: np.dot(np.transpose(P1 - com1), P2 - com2), times len * len
Covariance(Pa, Pb) ==
    LET X == Centred(Pa)
        Y == Centred(Pb)
    IN  [a \in 1..3 |-> [b \in 1..3 |-> SumProducts(X, Y, a, b, Len(Pa))]]

\* The signed permutation matrix whose row a holds sg[a] in column p[a]
SignedPermutation(p, sg) ==
    [a \in 1..3 |-> [b \in 1..3 |-> IF b = p[a] THEN sg[a] ELSE 0]]

\* line 59: the factorisations V, S, W of R that np.linalg.svd may return.
\* A factorisation stays one when a column of V and the same row of W change
\* sign together; that changes neither V W nor det(V) * det(W), nor what
\* lines 61-64 make of them, so V is taken with entries 0 and 1 only: column
\* a of V is the unit vector q[a], and row a of transpose(V) R is row q[a]
\* of R, which has to be S[a] times row a of W.
SVD(R) ==
    LET RowSum(r) == Abs(r[1]) + Abs(r[2]) + Abs(r[3])
        Of(q) ==
            LET A == [a \in 1..3 |-> R[q[a]]]
                S == [a \in 1..3 |-> RowSum(A[a])]
                ps == {p \in Permutations3 :
                         \A a \in 1..3 : Abs(A[a][p[a]]) = S[a]}
                sgs == {sg \in [1..3 -> {-1, 1}] :
                          \A a \in 1..3 : \A b \in 1..3 :
                              A[a][b] # 0 => A[a][b] = sg[a] * S[a]}
            IN  IF S[1] >= S[2] /\ S[2] >= S[3]
                THEN {<<Transpose(SignedPermutation(q, <<1, 1, 1>>)), S,
                        SignedPermutation(p, sg)>> : p \in ps, sg \in sgs}
                ELSE {}
    IN  UNION {Of(q) : q \in Permutations3}

\* V[:, -1] = -V[:, -1]
NegateLastColumn(V) ==
    [a \in 1..3 |-> [b \in 1..3 |-> IF b = 3 THEN -V[a][b] ELSE V[a][b]]]

ReflectionFix_Never(V, W) == V

\* lines 61-62
ReflectionFix(V, W) ==
    IF Det(V) * Det(W) < 0 THEN NegateLastColumn(V) ELSE V

\* lines 61-64 for one factorisation
RotationOf(f) == Transpose(MatMul(ReflectionFix(f[1], f[3]), f[3]))

\* line 66: M and com2 - np.dot(M, com1), the translation kept as its
\* numerator and the denominator len(P1)
WithTranslation(M, Pa, Pb) ==
    [M |-> M,
     t |-> [num |-> VecSub(SumPoints(Pb, Len(Pb)),
                           MatVec(M, SumPoints(Pa, Len(Pa)))),
            den |-> Len(Pa)]]

\* lines 55-66: every (M, t) the function may return for P1, P2
Transformations(Pa, Pb) ==
    {WithTranslation(M, Pa, Pb) :
        M \in {RotationOf(f) : f \in SVD(Covariance(Pa, Pb))}}

TransformationError_EmptyAccepted(Pa, Pb) ==
    IF Len(Pa) # Len(Pb) THEN "Exception" ELSE "none"

\* What get_superimpose_transformation raises: the check of line 52, or
\* np.linalg.svd at line 59, which is handed a 0-dimensional array when
\* there is no point at all
TransformationError(Pa, Pb) ==
    IF Len(Pa) # Len(Pb) THEN "Exception"
    ELSE IF Len(Pa) = 0 THEN "LinAlgError"
    ELSE "none"

\* pose_source.apply_transform_Rx_plus_v(M, t): every atom x becomes M x + t;
\* the moved structure holds coordinates over the denominator of t
ApplyTransform(pose, tr) ==
    [den |-> pose.den * tr.t.den,
     residues |->
        [k \in DOMAIN pose.residues |->
            [a \in DOMAIN pose.residues[k] |->
                VecAdd(Scale(tr.t.den, MatVec(tr.M, pose.residues[k][a])),
                       Scale(pose.den, tr.t.num))]]]

\* The image of a list of points / of a structure under x -> R x + t
ImagePoints(P, R, t) == [k \in DOMAIN P |-> VecAdd(MatVec(R, P[k]), t)]

ImagePose(pose, R, t) ==
    [den |-> pose.den,
     residues |-> [k \in DOMAIN pose.residues |->
                     [a \in DOMAIN pose.residues[k] |->
                        VecAdd(MatVec(R, pose.residues[k][a]), t)]]]

MaxPoints == 3

PointSet ==
    {<<0, 0, 0>>, <<1, 0, 0>>, <<-1, 0, 0>>, <<0, 2, 0>>, <<0, 0, 3>>}

Translations == {<<0, 0, 0>>, <<1, -2, 3>>}


SupResidues ==
    {[N |-> <<1, 0, 0>>, CA |-> <<0, 0, 0>>, C |-> <<-1, 0, 0>>],
     [N |-> <<1, 0, 0>>, CA |-> <<-1, 0, 0>>, C |-> <<0, 2, 0>>]}

SupPoses == {[den |-> 1, residues |-> rs] : rs \in [1..1 -> SupResidues] \cup [1..2 -> SupResidues]}

\* The covariance of the points with themselves is diagonal
AxisAligned(P) ==
    LET C == Covariance(P, P) IN \A a, b \in 1..3 : a # b => C[a][b] = 0

\* No point is listed twice
Distinct(P) == \A k, l \in DOMAIN P : k # l => P[k] # P[l]

\* The centred points are not all on one line through the centroid
SpansPlane(P) ==
    LET C == Covariance(P, P) IN
    Cardinality({a \in 1..3 : C[a][a] # 0}) >= 2

\* The list itself, the list without its last element, the list with x added
ListVariants(Q, x) ==
    {Q, Append(Q, x)} \cup (IF Q = <<>> THEN {} ELSE {SubSeq(Q, 1, Len(Q) - 1)})

NoStructure == [den |-> 1, residues |-> <<>>]

IdleSup ==
    /\ sup_entry = "none"
    /\ src_pose = NoStructure
    /\ src_pose_before = NoStructure
    /\ src_residues = <<>>
    /\ tgt_pose = NoStructure
    /\ tgt_residues = <<>>
    /\ P1 = <<>>
    /\ P2 = <<>>
    /\ given_R = <<>>
    /\ given_t = <<>>
    /\ M_t = <<>>

InitTransformationCall ==
    /\ sup_entry = "get_superimpose_transformation"
    /\ src_pose = NoStructure
    /\ src_residues = <<>>
    /\ tgt_pose = NoStructure
    /\ tgt_residues = <<>>
    /\ P1 \in {P \in SeqsUpTo(PointSet, MaxPoints) : Distinct(P) /\ AxisAligned(P)}
    /\ P2 \in ListVariants(ImagePoints(P1, given_R, given_t), Zero3)

InitSuperimposeCall ==
    /\ sup_entry = "superimpose_poses_by_residues"
    /\ src_pose \in SupPoses
    /\ src_residues \in
         {r \in SeqsUpTo(DOMAIN src_pose.residues, 2) :
             AxisAligned(GetBackbonePoints(src_pose.residues, r))}
    /\ tgt_pose = ImagePose(src_pose, given_R, given_t)
    /\ tgt_residues \in ListVariants(src_residues, 1)
    /\ P1 = <<>>
    /\ P2 = <<>>

InitSup ==
    /\ error = "none"
    /\ M_t = <<>>
    /\ given_R \in Rotations
    /\ given_t \in Translations
    /\ InitTransformationCall \/ InitSuperimposeCall
    /\ src_pose_before = src_pose
    /\ pc = sup_entry

\* superimpose_poses_by_residues, lines 82-91: the assert, the two point lists
GetPointsToSuperimpose ==
    /\ pc = "superimpose_poses_by_residues"
    /\ Len(src_residues) = Len(tgt_residues)
    /\ P1' = GetBackbonePoints(src_pose.residues, src_residues)
    /\ P2' = GetBackbonePoints(tgt_pose.residues, tgt_residues)
    /\ pc' = "get_superimpose_transformation"
    /\ UNCHANGED <<error, notSup, sup_entry, src_pose, src_pose_before,
                   src_residues, tgt_pose, tgt_residues, given_R, given_t, M_t>>

\* line 82 failing
SuperimposeAssertFails ==
    /\ pc = "superimpose_poses_by_residues"
    /\ Len(src_residues) # Len(tgt_residues)
    /\ error' = "AssertionError"
    /\ pc' = "raised"
    /\ UNCHANGED <<notSup, supVars>>

\* get_superimpose_transformation, lines 52-66
GetSuperimposeTransformation ==
    /\ pc = "get_superimpose_transformation"
    /\ TransformationError(P1, P2) = "none"
    /\ M_t' \in Transformations(P1, P2)
    /\ pc' = IF sup_entry = "superimpose_poses_by_residues"
             THEN "apply_transform" ELSE "returned"
    /\ UNCHANGED <<error, notSup, sup_entry, src_pose, src_pose_before,
                   src_residues, tgt_pose, tgt_residues, P1, P2, given_R,
                   given_t>>

GetSuperimposeTransformationRaises ==
    /\ pc = "get_superimpose_transformation"
    /\ TransformationError(P1, P2) # "none"
    /\ error' = TransformationError(P1, P2)
    /\ pc' = "raised"
    /\ UNCHANGED <<notSup, supVars>>

\* superimpose_poses_by_residues, lines 95-96
TransformSourcePose ==
    /\ pc = "apply_transform"
    /\ src_pose' = ApplyTransform(src_pose, M_t)
    /\ pc' = "superimposed"
    /\ UNCHANGED <<error, notSup, sup_entry, src_pose_before, src_residues,
                   tgt_pose, tgt_residues, P1, P2, given_R, given_t, M_t>>

NextSup ==
    \/ GetPointsToSuperimpose \/ SuperimposeAssertFails
    \/ GetSuperimposeTransformation \/ GetSuperimposeTransformationRaises
    \/ TransformSourcePose

SupFinished == pc \in {"returned", "superimposed", "raised"}

\* The lengths the caller handed in: of the point lists, or of the residue lists
SupLengths ==
    IF sup_entry = "superimpose_poses_by_residues"
    THEN <<Len(src_residues), Len(tgt_residues)>>
    ELSE <<Len(P1), Len(P2)>>

\* C4 (as stated): a transform is returned only for two lists of one length
\* >= 1; lists of different lengths or of length 0 fail with a precondition
\* error; whenever the call fails the source structure is not transformed.
C4_FailsWithPreconditionError ==
    /\ M_t # <<>> => (Len(P1) = Len(P2) /\ Len(P1) >= 1)
    /\ (SupFinished /\ (SupLengths[1] # SupLengths[2] \/ SupLengths[1] = 0)) =>
           error \in {"Exception", "AssertionError"}
    /\ error # "none" => src_pose = src_pose_before

\* C4 (amended): a transform is returned only for two lists of one length
\* >= 1; lists of different lengths fail with a precondition error (the
\* Exception of line 53, the assert of line 82); two empty lists pass both
\* checks and fail inside np.linalg.svd with a LinAlgError; whenever the call
\* fails the source structure is not transformed.
C4_FailsBeforeTransforming ==
    /\ M_t # <<>> => (Len(P1) = Len(P2) /\ Len(P1) >= 1)
    /\ (SupFinished /\ SupLengths[1] # SupLengths[2]) =>
           error \in {"Exception", "AssertionError"}
    /\ (SupFinished /\ SupLengths[1] = SupLengths[2] /\ SupLengths[1] = 0) =>
           error = "LinAlgError"
    /\ error # "none" => (src_pose = src_pose_before /\ M_t = <<>>)

C4_Witness ==
    /\ pc = "raised"
    /\ sup_entry = "superimpose_poses_by_residues"
    /\ error = "LinAlgError"
    /\ src_pose = src_pose_before
    /\ Len(src_pose.residues) = 2

\* P2 is P1 moved by the given rotation and translation
IsRigidImage == Len(P1) >= 1 /\ P2 = ImagePoints(P1, given_R, given_t)

RecoversGiven ==
    /\ M_t.M = given_R
    /\ M_t.t.num = Scale(M_t.t.den, given_t)

\* C10 (as stated): for any non-empty P, get_superimpose_transformation(P,
\* R P + t) returns (R, t), and the rotation returned is always proper.
C10_RecoversAnyRigidMotion ==
    M_t # <<>> =>
        /\ Det(M_t.M) = 1
        /\ IsRigidImage => RecoversGiven

\* C10 (amended): for any P whose points do not all lie on one line,
\* get_superimpose_transformation(P, R P + t) returns (R, t); the rotation
\* returned is proper for every input.
C10_RecoversRigidMotionOfNonCollinear ==
    M_t # <<>> =>
        /\ Det(M_t.M) = 1
        /\ (IsRigidImage /\ SpansPlane(P1)) => RecoversGiven

C10_Witness ==
    /\ pc = "returned"
    /\ IsRigidImage
    /\ SpansPlane(P1)
    /\ SumPoints(P1, Len(P1)) # Zero3
    /\ given_t # Zero3
    /\ given_R[1][1] = 0 /\ given_R[3][3] = 0
    /\ RecoversGiven

(***************************************************************************)
(* get_fragment_quality_scores: the files it leaves in the working         *)
(* directory (filter.py lines 133-166).                                    *)
(***************************************************************************)
MaxCrmsds == 2

CrmsdValues == {1, 2, 4}

FastaFile == "design.fasta"
FragsFile == "frags.fsc.200.9mers"
DesignPdb == "design.pdb.gz"

\* Files that may lie in the design directory when the function is called
WorkingDirectories == SUBSET {DesignPdb, FastaFile, FragsFile, "design_info.json"}

CrmsdLists == SeqsUpTo(CrmsdValues, MaxCrmsds) \ {<<>>}

MaxOf(xs) == CHOOSE x \in ToSet(xs) : \A y \in ToSet(xs) : y <= x

RECURSIVE SumOf(_, _)
SumOf(xs, k) == IF k = 0 THEN 0 ELSE SumOf(xs, k - 1) + xs[k]

\* np.mean(xs) as the pair (sum, count)
MeanOf(xs) == [sum |-> SumOf(xs, Len(xs)), n |-> Len(xs)]

IdleFragment ==
    /\ cwd_files = {}
    /\ fdf = <<>>
    /\ crmsds = <<>>
    /\ fragment_scores = <<>>

InitFragment ==
    /\ pc = "write_fasta"
    /\ error = "none"
    /\ cwd_files \in WorkingDirectories
    /\ fdf = <<>>
    /\ crmsds = <<>>
    /\ fragment_scores = <<>>

\* lines 146-147: IO.sequence_to_fasta_file('design.fasta', ...)
WriteFastaFile ==
    /\ pc = "write_fasta"
    /\ cwd_files' = cwd_files \union {FastaFile}
    /\ pc' = "pick_fragments"
    /\ UNCHANGED <<error, notFragment, fdf, crmsds, fragment_scores>>

\* lines 151-157: the fragment picker reads design.pdb.gz and design.fasta
\* and writes its output into '.'
PickFragments ==
    /\ pc = "pick_fragments"
    /\ {DesignPdb, FastaFile} \subseteq cwd_files
    /\ cwd_files' = cwd_files \union {FragsFile}
    /\ fdf' \in CrmsdLists
    /\ pc' = "get_position_crmsd"
    /\ UNCHANGED <<error, notFragment, crmsds, fragment_scores>>

\* The collaborator fails (always when design.pdb.gz is missing); the error
\* propagates and nothing is cleaned up
PickFragmentsFails ==
    /\ pc = "pick_fragments"
    /\ cwd_files' \in {cwd_files, cwd_files \union {FragsFile}}
    /\ error' = "CollaboratorError"
    /\ pc' = "raised"
    /\ UNCHANGED <<notFragment, fdf, crmsds, fragment_scores>>

\* line 158
GetPositionCrmsd ==
    /\ pc = "get_position_crmsd"
    /\ crmsds' = fdf
    /\ pc' = "remove"
    /\ UNCHANGED <<error, notFragment, cwd_files, fdf, fragment_scores>>

\* lines 160-162: os.remove('frags.fsc.200.9mers'), the only removal
RemoveTemporaryFiles ==
    /\ pc = "remove"
    /\ FragsFile \in cwd_files
    /\ cwd_files' = cwd_files \ {FragsFile}
    /\ pc' = "return"
    /\ UNCHANGED <<error, notFragment, fdf, crmsds, fragment_scores>>

\* line 166
ReturnFragmentScores ==
    /\ pc = "return"
    /\ fragment_scores' = [worst |-> MaxOf(crmsds), mean |-> MeanOf(crmsds)]
    /\ pc' = "returned"
    /\ UNCHANGED <<error, notFragment, cwd_files, fdf, crmsds>>

NextFragment ==
    \/ WriteFastaFile
    \/ PickFragments
    \/ PickFragmentsFails
    \/ GetPositionCrmsd
    \/ RemoveTemporaryFiles
    \/ ReturnFragmentScores

\* C7: whenever get_fragment_quality_scores returns successfully, neither
\* design.fasta nor frags.fsc.200.9mers exists in the working directory.
C7_TemporaryFilesDeleted ==
    pc = "returned" =>
        (FastaFile \notin cwd_files /\ FragsFile \notin cwd_files)

\* What the code does guarantee on a successful return: the fragment-picker
\* output is gone, the sequence file is still there.
C7_OnlyFragsFileDeleted ==
    pc = "returned" =>
        (FastaFile \in cwd_files /\ FragsFile \notin cwd_files)

(***************************************************************************)
(* generate_filter_scores: the residue subset behind every key of          *)
(* filter_scores (filter.py lines 168-223).                                *)
(***************************************************************************)
MaxFilterPoseSize == 4

BuhCounts == {0, 1}

\* designable_residues + repackable_residues
MovableResidues(designable, repackable) == designable \o repackable

\* all_residues = list(range(1, pose.size()))
AllResidues(size) == RangeList(1, size - 1)

\* The residues of a set in increasing order
SortedList(S) == SelectSeq(RangeList(1, MaxFilterPoseSize + 1), LAMBDA i : i \in S)

\* buhs_for_each_res[i - 1] for i in residues: python index i - 1 is entry i
EntriesRead_BuriedUnsat(residues) == residues

\* consensus[i + 1] for i in residues: python index i + 1 is entry i + 2
EntriesRead_Consensus(residues) == [k \in DOMAIN residues |-> residues[k] + 2]

RECURSIVE SumEntries(_, _, _)
SumEntries(table, entries, k) ==
    IF k = 0 THEN 0
    ELSE SumEntries(table, entries, k - 1) + table[entries[k]]

\* sum(table[...] for i in residues), given the entries it reads
SumOver(table, entries) == SumEntries(table, entries, Len(entries))

\* Some index of the generator is out of the list's range
RaisesIndexError(table, entries) ==
    \E k \in DOMAIN entries : entries[k] \notin DOMAIN table

IdleFilter ==
    /\ filter_pose_size = 0
    /\ designable_residues = <<>>
    /\ repackable_residues = <<>>
    /\ bur_unsat_polars = <<>>
    /\ consensus_buhs = <<>>
    /\ scored_over = <<>>
    /\ filter_scores = <<>>

\* A structure with its designable residues (at least one), its repackable
\* residues, the calculator's per-residue counts and the consensus counts
\* (each at most the count of the unperturbed structure)
InitFilter ==
    /\ pc = "energies"
    /\ error = "none"
    /\ filter_pose_size \in 1..MaxFilterPoseSize
    /\ \E D \in SUBSET (1..filter_pose_size) \ {{}} :
         /\ designable_residues = SortedList(D)
         /\ \E P \in SUBSET ((1..filter_pose_size) \ D) :
              repackable_residues = SortedList(P)
    /\ bur_unsat_polars \in [1..filter_pose_size -> BuhCounts]
    /\ consensus_buhs \in [1..filter_pose_size -> BuhCounts]
    /\ \A k \in 1..filter_pose_size : consensus_buhs[k] <= bur_unsat_polars[k]
    /\ scored_over = <<>>
    /\ filter_scores = <<>>

\* lines 172-187: average and max energies
ComputeEnergies ==
    /\ pc = "energies"
    /\ AllResidues(filter_pose_size) # <<>>
    /\ LET movable == MovableResidues(designable_residues, repackable_residues)
           all == AllResidues(filter_pose_size)
       IN scored_over' = scored_over @@
            ("designable_residues_average_energy" :> designable_residues) @@
            ("movable_residues_average_energy" :> movable) @@
            ("all_average_energy" :> all) @@
            ("designable_residues_max_energy" :> designable_residues) @@
            ("movable_residues_max_energy" :> movable) @@
            ("all_residues_max_energy" :> all)
    /\ pc' = "buried_unsat"
    /\ UNCHANGED <<error, notFilter, filter_pose_size, designable_residues,
                   repackable_residues, bur_unsat_polars, consensus_buhs,
                   filter_scores>>

\* lines 172-187 on a structure of one residue: all_residues is empty and
\* max() of an empty list raises at line 187
ComputeEnergiesRaises ==
    /\ pc = "energies"
    /\ AllResidues(filter_pose_size) = <<>>
    /\ LET movable == MovableResidues(designable_residues, repackable_residues)
       IN scored_over' = scored_over @@
            ("designable_residues_average_energy" :> designable_residues) @@
            ("movable_residues_average_energy" :> movable) @@
            ("all_average_energy" :> <<>>) @@
            ("designable_residues_max_energy" :> designable_residues) @@
            ("movable_residues_max_energy" :> movable)
    /\ error' = "ValueError"
    /\ pc' = "raised"
    /\ UNCHANGED <<notFilter, filter_pose_size, designable_residues,
                   repackable_residues, bur_unsat_polars, consensus_buhs,
                   filter_scores>>

\* lines 189-193 with get_num_buried_unsatisfied_hbonds (lines 66-78)
ComputeBuriedUnsat ==
    /\ pc = "buried_unsat"
    /\ LET movable == MovableResidues(designable_residues, repackable_residues)
           all == AllResidues(filter_pose_size)
           d == EntriesRead_BuriedUnsat(designable_residues)
           m == EntriesRead_BuriedUnsat(movable)
           a == EntriesRead_BuriedUnsat(all)
       IN /\ scored_over' = scored_over @@
               ("buried_unsat_for_designable_residues" :> d) @@
               ("buried_unsat_for_movable_residues" :> m) @@
               ("buried_unsat_for_all_residues" :> a)
          /\ filter_scores' = filter_scores @@
               ("buried_unsat_for_designable_residues" :>
                    SumOver(bur_unsat_polars, d)) @@
               ("buried_unsat_for_movable_residues" :>
                    SumOver(bur_unsat_polars, m)) @@
               ("buried_unsat_for_all_residues" :>
                    SumOver(bur_unsat_polars, a))
    /\ pc' = "consensus"
    /\ UNCHANGED <<error, notFilter, filter_pose_size, designable_residues,
                   repackable_residues, bur_unsat_polars, consensus_buhs>>

\* lines 195-199, no index out of range
ComputeConsensusBuhs ==
    /\ pc = "consensus"
    /\ LET movable == MovableResidues(designable_residues, repackable_residues)
           a == RangeList(1, Len(consensus_buhs))
           d == EntriesRead_Consensus(designable_residues)
           m == EntriesRead_Consensus(movable)
       IN /\ ~RaisesIndexError(consensus_buhs, m)
          /\ scored_over' = scored_over @@
               ("backrub_ensemble_consensus_buhs_for_all_residues" :> a) @@
               ("backrub_ensemble_consensus_buhs_for_designable_residues" :> d) @@
               ("backrub_ensemble_consensus_buhs_for_movable_residues" :> m)
          /\ filter_scores' = filter_scores @@
               ("backrub_ensemble_consensus_buhs_for_all_residues" :>
                    SumOver(consensus_buhs, a)) @@
               ("backrub_ensemble_consensus_buhs_for_designable_residues" :>
                    SumOver(consensus_buhs, d)) @@
               ("backrub_ensemble_consensus_buhs_for_movable_residues" :>
                    SumOver(consensus_buhs, m))
    /\ pc' = "over_saturated"
    /\ UNCHANGED <<error, notFilter, filter_pose_size, designable_residues,
                   repackable_residues, bur_unsat_polars, consensus_buhs>>

\* lines 197-199, consensus[i + 1] out of range at line 198 or at line 199:
\* the keys assigned before the failing line stay in filter_scores
ComputeConsensusBuhsRaises ==
    /\ pc = "consensus"
    /\ LET movable == MovableResidues(designable_residues, repackable_residues)
           a == RangeList(1, Len(consensus_buhs))
           d == EntriesRead_Consensus(designable_residues)
           m == EntriesRead_Consensus(movable)
           all_key == "backrub_ensemble_consensus_buhs_for_all_residues"
           d_key == "backrub_ensemble_consensus_buhs_for_designable_residues"
       IN /\ RaisesIndexError(consensus_buhs, m)
          /\ IF RaisesIndexError(consensus_buhs, d)
             THEN /\ scored_over' = scored_over @@ (all_key :> a)
                  /\ filter_scores' = filter_scores @@
                       (all_key :> SumOver(consensus_buhs, a))
             ELSE /\ scored_over' = scored_over @@ (all_key :> a) @@ (d_key :> d)
                  /\ filter_scores' = filter_scores @@
                       (all_key :> SumOver(consensus_buhs, a)) @@
                       (d_key :> SumOver(consensus_buhs, d))
    /\ error' = "IndexError"
    /\ pc' = "raised"
    /\ UNCHANGED <<notFilter, filter_pose_size, designable_residues,
                   repackable_residues, bur_unsat_polars, consensus_buhs>>

\* lines 201-205: all three calls pass designable_residues
ComputeOverSaturatedAcceptors ==
    /\ pc = "over_saturated"
    /\ scored_over' = scored_over @@
         ("num_over_saturated_hbond_acceptors_for_designable_residues" :>
              designable_residues) @@
         ("num_over_saturated_hbond_acceptors_for_movable_residues" :>
              designable_residues) @@
         ("num_over_saturated_hbond_acceptors_for_all_residues" :>
              designable_residues)
    /\ pc' = "sasa_holes"
    /\ UNCHANGED <<error, notFilter, filter_pose_size, designable_residues,
                   repackable_residues, bur_unsat_polars, consensus_buhs,
                   filter_scores>>

\* lines 207-223: hydrophobic sasa and local holes scores
ComputeSasaAndHoles ==
    /\ pc = "sasa_holes"
    /\ LET movable == MovableResidues(designable_residues, repackable_residues)
           all == AllResidues(filter_pose_size)
       IN scored_over' = scored_over @@
            ("hydrophobic_sasa_sc_for_designable_residues" :> designable_residues) @@
            ("hydrophobic_sasa_for_movable_residues" :> movable) @@
            ("average_hydrophobic_sasa_for_movable_residues" :> movable) @@
            ("relative_hydrophobic_sasa_for_movable_residues" :> movable) @@
            ("designable_local_holes_score" :> designable_residues) @@
            ("movable_local_holes_score" :> movable) @@
            ("all_local_holes_score" :> all)
    /\ pc' = "scored"
    /\ UNCHANGED <<error, notFilter, filter_pose_size, designable_residues,
                   repackable_residues, bur_unsat_polars, consensus_buhs,
                   filter_scores>>

NextFilter ==
    \/ ComputeEnergies
    \/ ComputeEnergiesRaises
    \/ ComputeBuriedUnsat
    \/ ComputeConsensusBuhs
    \/ ComputeConsensusBuhsRaises
    \/ ComputeOverSaturatedAcceptors
    \/ ComputeSasaAndHoles

DesignableKeys ==
    {"designable_residues_average_energy", "designable_residues_max_energy",
     "buried_unsat_for_designable_residues",
     "backrub_ensemble_consensus_buhs_for_designable_residues",
     "num_over_saturated_hbond_acceptors_for_designable_residues",
     "hydrophobic_sasa_sc_for_designable_residues",
     "designable_local_holes_score"}

MovableKeys ==
    {"movable_residues_average_energy", "movable_residues_max_energy",
     "buried_unsat_for_movable_residues",
     "backrub_ensemble_consensus_buhs_for_movable_residues",
     "num_over_saturated_hbond_acceptors_for_movable_residues",
     "hydrophobic_sasa_for_movable_residues",
     "average_hydrophobic_sasa_for_movable_residues",
     "relative_hydrophobic_sasa_for_movable_residues",
     "movable_local_holes_score"}

\* The subset a key names; every other key names 'all'
NamedSubset(key) ==
    IF key \in DesignableKeys THEN designable_residues
    ELSE IF key \in MovableKeys THEN designable_residues \o repackable_residues
    ELSE RangeList(1, filter_pose_size)

\* The per-residue list a sum is formed from
TableOf(key) ==
    IF key \in {"buried_unsat_for_designable_residues",
                "buried_unsat_for_movable_residues",
                "buried_unsat_for_all_residues"}
    THEN bur_unsat_polars ELSE consensus_buhs

\* C8: every score whose key names a residue subset is computed over exactly
\* that subset (designable, designable + repackable, 1..pose.size()); the
\* sums read, for each residue i of the subset, the entry of residue i, and
\* no step fails on its residue list.
C8_ScoresOverNamedSubsets ==
    /\ error = "none"
    /\ \A key \in DOMAIN scored_over : scored_over[key] = NamedSubset(key)
    /\ \A key \in DOMAIN filter_scores :
         filter_scores[key] = SumOver(TableOf(key), NamedSubset(key))

(***************************************************************************)
(* get_backrub_ensemble_consensus_buhs_for_each_res (filter.py lines       *)
(* 33-64).  A structure is the list of its per-residue buried-unsatisfied  *)
(* counts and the number of times a mover was applied to it; the backrub   *)
(* mover is stochastic, so apply() yields any conformation.                *)
(***************************************************************************)
MaxSegments == 2

\* for j in range(5)
CopiesPerSegment == 5

BackrubResidues == 1..2

BuhLists == [BackrubResidues -> BuhCounts]

BackrubPoses == {[buhs |-> b, applied |-> 0] : b \in BuhLists}

\* get_buhs_for_each_res(pose)
GetBuhsForEachRes(p) == p.buhs

\* pose.clone(): a new structure equal to pose
Clone(p) == [buhs |-> p.buhs, applied |-> p.applied]

\* What br_mover.apply(p) can turn p into
Perturbations(p) == {[buhs |-> b, applied |-> p.applied + 1] : b \in BuhLists}

MinEach_KeepLatest(running, observed) == observed

\* lines 61-62: buhs_for_each_res[k] = min(buhs_for_each_res[k], tmp[k])
MinEach(running, observed) ==
    [k \in DOMAIN running |->
        IF observed[k] < running[k] THEN observed[k] ELSE running[k]]

NoBackrubPose == [buhs |-> <<>>, applied |-> 0]

IdleBackrub ==
    /\ br_pose = NoBackrubPose
    /\ original_buhs = <<>>
    /\ num_segments = 0
    /\ segment_i = 0
    /\ next_segment_id = 0
    /\ copy_j = 0
    /\ tmp_pose = NoBackrubPose
    /\ buhs_for_each_res = <<>>
    /\ scored_buhs = {}
    /\ scored_per_segment = <<>>

InitBackrub ==
    /\ pc = "get_buhs"
    /\ error = "none"
    /\ br_pose \in BackrubPoses
    /\ original_buhs = br_pose.buhs
    /\ num_segments = 0
    /\ segment_i = 0
    /\ next_segment_id = 0
    /\ copy_j = 0
    /\ tmp_pose = NoBackrubPose
    /\ buhs_for_each_res = <<>>
    /\ scored_buhs = {}
    /\ scored_per_segment = [s \in 1..MaxSegments |-> 0]

\* line 40
GetOriginalBuhs ==
    /\ pc = "get_buhs"
    /\ buhs_for_each_res' = GetBuhsForEachRes(br_pose)
    /\ pc' = "update_segments"
    /\ UNCHANGED <<error, notBackrub, br_pose, original_buhs, num_segments,
                   segment_i, next_segment_id, copy_j, tmp_pose, scored_buhs,
                   scored_per_segment>>

\* lines 42-49: one apply on a clone, which is not scored, sets the mover's
\* segments; range(1, num_segments + 1) is fixed here
UpdateSegments ==
    /\ pc = "update_segments"
    /\ tmp_pose' \in Perturbations(Clone(br_pose))
    /\ num_segments' \in 0..MaxSegments
    /\ segment_i' = 1
    /\ pc' = "next_segment"
    /\ UNCHANGED <<error, notBackrub, br_pose, original_buhs, next_segment_id,
                   copy_j, buhs_for_each_res, scored_buhs, scored_per_segment>>

\* lines 49-50
NextSegment ==
    /\ pc = "next_segment"
    /\ segment_i <= num_segments
    /\ next_segment_id' = segment_i
    /\ copy_j' = 0
    /\ pc' = "clone"
    /\ UNCHANGED <<error, notBackrub, br_pose, original_buhs, num_segments,
                   segment_i, tmp_pose, buhs_for_each_res, scored_buhs,
                   scored_per_segment>>

\* lines 54-56
CloneAndPerturb ==
    /\ pc = "clone"
    /\ copy_j < CopiesPerSegment
    /\ tmp_pose' \in Perturbations(Clone(br_pose))
    /\ pc' = "score"
    /\ UNCHANGED <<error, notBackrub, br_pose, original_buhs, num_segments,
                   segment_i, next_segment_id, copy_j, buhs_for_each_res,
                   scored_buhs, scored_per_segment>>

\* lines 57-62, and the step of the two loops
ScoreCopy ==
    /\ pc = "score"
    /\ LET tmp_buh_for_each_res == GetBuhsForEachRes(tmp_pose)
       IN /\ buhs_for_each_res' = MinEach(buhs_for_each_res, tmp_buh_for_each_res)
          /\ scored_buhs' = scored_buhs \union {tmp_buh_for_each_res}
    /\ scored_per_segment' =
         [scored_per_segment EXCEPT ![next_segment_id] = @ + 1]
    /\ copy_j' = copy_j + 1
    /\ IF copy_j + 1 < CopiesPerSegment
       THEN pc' = "clone" /\ segment_i' = segment_i
       ELSE pc' = "next_segment" /\ segment_i' = segment_i + 1
    /\ UNCHANGED <<error, notBackrub, br_pose, original_buhs, num_segments,
                   next_segment_id, tmp_pose>>

\* line 64
ReturnConsensusBuhs ==
    /\ pc = "next_segment"
    /\ segment_i > num_segments
    /\ pc' = "returned"
    /\ UNCHANGED <<error, notBackrub, backrubVars>>

NextBackrub ==
    \/ GetOriginalBuhs
    \/ UpdateSegments
    \/ NextSegment
    \/ CloneAndPerturb
    \/ ScoreCopy
    \/ ReturnConsensusBuhs

\* Smallest of a non-empty set of counts
Least(S) == CHOOSE x \in S : \A y \in S : x <= y

\* C9: the function returns, for every residue, the minimum of the count on
\* the original structure and the counts on all scored perturbed copies;
\* exactly 5 copies are scored for each segment 1..num_segments and none for
\* any other; each scored copy is a clone of the original perturbed once;
\* every returned entry is <= the original's count; the original structure
\* is never perturbed.
C9_ConsensusIsMinimumOverCopies ==
    /\ br_pose = [buhs |-> original_buhs, applied |-> 0]
    /\ pc = "score" => tmp_pose.applied = 1
    /\ pc = "returned" =>
         /\ DOMAIN buhs_for_each_res = DOMAIN original_buhs
         /\ \A k \in DOMAIN original_buhs :
              /\ buhs_for_each_res[k] =
                   Least({original_buhs[k]} \union {b[k] : b \in scored_buhs})
              /\ buhs_for_each_res[k] <= original_buhs[k]
         /\ \A s \in 1..MaxSegments :
              scored_per_segment[s] =
                  IF s <= num_segments THEN CopiesPerSegment ELSE 0

C9_Witness ==
    /\ pc = "returned"
    /\ num_segments = 2
    /\ scored_per_segment[2] = CopiesPerSegment
    /\ Cardinality(scored_buhs) >= 3
    /\ buhs_for_each_res[1] < original_buhs[1]
    /\ buhs_for_each_res[2] = original_buhs[2]
    /\ \E b \in scored_buhs : b[1] > buhs_for_each_res[1]

(***************************************************************************)
(* get_target_to_source_residue_map called on its own, on two structures   *)
(* of any sizes (lines 112-139).                                           *)
(***************************************************************************)
InitMapCall ==
    /\ pc = "map"
    /\ error = "none"
    /\ design_i = <<>>
    /\ lowest_j = <<>>
    /\ pose_source \in UNION {PosesOfSize(n) : n \in 1..MaxLen}
    /\ pose_target \in UNION {PosesOfSize(n) : n \in 1..MaxLen}
    /\ remodeled_residues_target = <<>>
    /\ s_t_distances_sorted = <<>>
    /\ d_pos = 0
    /\ res_map = <<>>
    /\ remodeled_aligned_residues_source = <<>>
    /\ remodeled_aligned_residues_target = <<>>
    /\ rmsd = <<>>
    /\ IdleLoad
    /\ IdleBatch
    /\ IdleRmsd
    /\ IdleSup
    /\ IdleFragment
    /\ IdleFilter
    /\ IdleBackrub

NextMapCall == GetResidueMap

SpecMapCall == InitMapCall /\ [][NextMapCall]_vars

\* Position of the pair of triple t in the enumeration of lines 122-124
EnumerationIndex(t) == (t[1] - 1) * Len(pose_target) + t[2]

\* The pair of the p-th sorted triple is an entry of the map
InMap(p) ==
    <<s_t_distances_sorted[p][2], s_t_distances_sorted[p][1]>> \in ToSet(res_map)

SharesResidue(t, u) == t[1] = u[1] \/ t[2] = u[2]

\* C11: the pairs are considered in ascending order of C-alpha distance,
\* equal distances in enumeration order (source index, then target index); a
\* pair is accepted exactly when no earlier accepted pair has its source or
\* its target residue; the loop stops at the pair that matches the last
\* source residue (or at the end of the list).  These fix the map uniquely
\* from the pairwise distances.
C11_GreedyStableMatching ==
    pc = "collect" =>
        LET D == s_t_distances_sorted
            n == Len(pose_source)
            m == Len(pose_target)
        IN
        /\ Len(D) = n * m
        /\ {<<D[p][1], D[p][2]>> : p \in DOMAIN D} = (1..n) \X (1..m)
        /\ \A p \in DOMAIN D :
             D[p][3] = DistSq(pose_source[D[p][1]].CA, pose_target[D[p][2]].CA)
        /\ \A p, q \in DOMAIN D :
             p < q => \/ D[p][3] < D[q][3]
                      \/ /\ D[p][3] = D[q][3]
                         /\ EnumerationIndex(D[p]) < EnumerationIndex(D[q])
        /\ d_pos \in DOMAIN D
        /\ \A p \in 1..d_pos :
             InMap(p) <=> ~\E q \in 1..(p - 1) : InMap(q) /\ SharesResidue(D[p], D[q])
        /\ \A p \in (d_pos + 1)..Len(D) : ~InMap(p)
        /\ Len(res_map) = Cardinality({p \in DOMAIN D : InMap(p)})
        /\ \A k, l \in DOMAIN res_map :
             k < l => \E p, q \in DOMAIN D :
                        /\ p < q
                        /\ res_map[k] = <<D[p][2], D[p][1]>>
                        /\ res_map[l] = <<D[q][2], D[q][1]>>
        /\ Len(res_map) <= n
        /\ IF Len(res_map) = n THEN InMap(d_pos) ELSE d_pos = Len(D)

C11_Witness ==
    /\ pc = "collect"
    /\ Len(pose_source) = 2
    /\ Len(pose_target) = 3
    /\ d_pos < Len(s_t_distances_sorted)
    /\ \E p \in 1..d_pos : ~InMap(p)
    /\ \E p, q \in 1..d_pos :
         /\ p < q
         /\ InMap(p)
         /\ s_t_distances_sorted[p][3] = s_t_distances_sorted[q][3]
         /\ SharesResidue(s_t_distances_sorted[p], s_t_distances_sorted[q])

(***************************************************************************)
(* Specifications: one operation runs, the others stay idle.               *)
(***************************************************************************)
InitSpecLoad ==
    /\ InitLoad
    /\ IdleBatch
    /\ IdlePair
    /\ IdleRmsd
    /\ IdleSup
    /\ IdleFragment
    /\ IdleFilter
    /\ IdleBackrub
SpecLoad == InitSpecLoad /\ [][NextLoad]_vars

InitSpecBatch ==
    /\ InitBatch
    /\ IdleLoad
    /\ IdlePair
    /\ IdleRmsd
    /\ IdleSup
    /\ IdleFragment
    /\ IdleFilter
    /\ IdleBackrub
SpecBatch == InitSpecBatch /\ [][NextBatch]_vars

InitSpecPair ==
    /\ InitPair
    /\ IdleLoad
    /\ IdleBatch
    /\ IdleRmsd
    /\ IdleSup
    /\ IdleFragment
    /\ IdleFilter
    /\ IdleBackrub
SpecPair == InitSpecPair /\ [][NextPair]_vars

InitSpecRmsd ==
    /\ InitRmsd
    /\ IdleLoad
    /\ IdleBatch
    /\ IdlePair
    /\ IdleSup
    /\ IdleFragment
    /\ IdleFilter
    /\ IdleBackrub
SpecRmsd == InitSpecRmsd /\ [][NextRmsd]_vars

InitSpecSup ==
    /\ InitSup
    /\ IdleLoad
    /\ IdleBatch
    /\ IdlePair
    /\ IdleRmsd
    /\ IdleFragment
    /\ IdleFilter
    /\ IdleBackrub
SpecSup == InitSpecSup /\ [][NextSup]_vars

InitSpecFragment ==
    /\ InitFragment
    /\ IdleLoad
    /\ IdleBatch
    /\ IdlePair
    /\ IdleRmsd
    /\ IdleSup
    /\ IdleFilter
    /\ IdleBackrub
SpecFragment == InitSpecFragment /\ [][NextFragment]_vars

InitSpecFilter ==
    /\ InitFilter
    /\ IdleLoad
    /\ IdleBatch
    /\ IdlePair
    /\ IdleRmsd
    /\ IdleSup
    /\ IdleFragment
    /\ IdleBackrub
SpecFilter == InitSpecFilter /\ [][NextFilter]_vars

InitSpecBackrub ==
    /\ InitBackrub
    /\ IdleLoad
    /\ IdleBatch
    /\ IdlePair
    /\ IdleRmsd
    /\ IdleSup
    /\ IdleFragment
    /\ IdleFilter
SpecBackrub == InitSpecBackrub /\ [][NextBackrub]_vars
====
